---------------------------- MODULE Spec2Model ----------------------------
(***************************************************************************)
(* redb_wallet_storage: the RedbStore persistence adapter (src/src/lib.rs).*)
(*                                                                         *)
(* One database file at one path, the Store values that are live on it,    *)
(* the pending future of the asynchronous contract, and the value the most *)
(* recent call returned.  Every adapter operation is an operator computed  *)
(* step by step as its code runs (one engine call per step, the first      *)
(* failing step returns), and an action that applies it.                   *)
(*                                                                         *)
(* The storage engine (redb), the codec (serde_json) and the changeset     *)
(* type (bdk_wallet::ChangeSet) are collaborators of the adapter.  The     *)
(* engine is modelled by its transactional contract: a write transaction   *)
(* works on a private copy that commit installs; any engine call may fail, *)
(* which the `fault` input of an operation selects.                        *)
(***************************************************************************)
EXTENDS Integers, Sequences, FiniteSets, TLC

(***************************************************************************)
(* Bounds of the model.                                                    *)
(***************************************************************************)
\* highest address index a changeset reveals
MaxIndex == 1
\* persist calls per database file
MaxPersists == 2

(***************************************************************************)
(* The changeset domain: bdk_wallet::ChangeSet, reduced to its mergeable   *)
(* parts that the adapter's tests exercise.  indexer is last_revealed, a   *)
(* map from descriptor to the highest revealed index (merged by maximum);  *)
(* local_chain is a map from height to block hash (merged by extension,    *)
(* the merged-in value replacing the one held).                            *)
(***************************************************************************)
Descriptors == {1}
Heights == {1}
Hashes == {1, 2}
Indices == 0..MaxIndex

Maps(K, V) == UNION {[D -> V] : D \in SUBSET K}

EmptyMap == [k \in {} |-> 0]

ChangeSets == [indexer : Maps(Descriptors, Indices), local_chain : Maps(Heights, Hashes)]

\* ChangeSet::default()
Empty == [indexer |-> EmptyMap, local_chain |-> EmptyMap]

\* Merge::is_empty
is_empty(cs) == DOMAIN cs.indexer = {} /\ DOMAIN cs.local_chain = {}

\* the merge of two revealed indices as a slip would have it: counted together
index_sum(a, b) == a + b

Max(a, b) == IF a >= b THEN a ELSE b

\* Merge::merge(&mut self, other): the value of self afterwards
merge(self, other) ==
    [indexer |->
        [d \in DOMAIN self.indexer \cup DOMAIN other.indexer |->
            IF d \in DOMAIN self.indexer /\ d \in DOMAIN other.indexer
            THEN Max(self.indexer[d], other.indexer[d])
            ELSE IF d \in DOMAIN other.indexer THEN other.indexer[d]
            ELSE self.indexer[d]],
     local_chain |->
        [h \in DOMAIN self.local_chain \cup DOMAIN other.local_chain |->
            IF h \in DOMAIN other.local_chain THEN other.local_chain[h]
            ELSE self.local_chain[h]]]

(***************************************************************************)
(* The codec.  A payload is a sequence of numbers: each map is written as  *)
(* its entry count followed by its (key, value) pairs in ascending key     *)
(* order, the indexer first, the chain second.  Decoding parses exactly    *)
(* that and rejects everything else.                                       *)
(***************************************************************************)
MinOf(S) == CHOOSE x \in S : \A y \in S : x <= y

RECURSIVE EncEntries(_, _)
EncEntries(m, keys) ==
    IF keys = {} THEN <<>>
    ELSE LET k == MinOf(keys)
         IN  <<k, m[k]>> \o EncEntries(m, keys \ {k})

EncMap(m) == <<Cardinality(DOMAIN m)>> \o EncEntries(m, DOMAIN m)

\* to_vec as a slip would have it: the chain part is written as an empty map
to_vec_without_chain(cs) == EncMap(cs.indexer) \o EncMap(EmptyMap)

\* serde_json::to_vec
to_vec(cs) == EncMap(cs.indexer) \o EncMap(cs.local_chain)

\* n entries of a map read from b at pos; keys ascending above lastKey
RECURSIVE ParseEntries(_, _, _, _, _, _, _)
ParseEntries(b, pos, n, lastKey, K, V, acc) ==
    IF n = 0 THEN [ok |-> TRUE, map |-> acc, next |-> pos]
    ELSE IF pos + 1 > Len(b) THEN [ok |-> FALSE, map |-> acc, next |-> pos]
    ELSE LET k == b[pos]
             v == b[pos + 1]
         IN  IF k \in K /\ v \in V /\ k > lastKey
             THEN ParseEntries(b, pos + 2, n - 1, k, K, V,
                      [x \in DOMAIN acc \cup {k} |-> IF x = k THEN v ELSE acc[x]])
             ELSE [ok |-> FALSE, map |-> acc, next |-> pos]

ParseMap(b, pos, K, V) ==
    IF pos > Len(b) THEN [ok |-> FALSE, map |-> EmptyMap, next |-> pos]
    ELSE IF b[pos] \notin 0..Cardinality(K) THEN [ok |-> FALSE, map |-> EmptyMap, next |-> pos]
    ELSE ParseEntries(b, pos + 1, b[pos], -1, K, V, EmptyMap)

\* serde_json::from_slice::<ChangeSet>
from_slice(b) ==
    LET i == ParseMap(b, 1, Descriptors, Indices)
    IN  IF ~i.ok THEN [ok |-> FALSE, val |-> Empty]
        ELSE LET c == ParseMap(b, i.next, Heights, Hashes)
             IN  IF c.ok /\ c.next = Len(b) + 1
                 THEN [ok |-> TRUE, val |-> [indexer |-> i.map, local_chain |-> c.map]]
                 ELSE [ok |-> FALSE, val |-> Empty]

(***************************************************************************)
(* Results and the error kinds of RedbError.                               *)
(***************************************************************************)
Ok(v) == [ok |-> TRUE, kind |-> "Ok", val |-> v]
Err(k) == [ok |-> FALSE, kind |-> k]
Unit == [unit |-> TRUE]
Some(v) == [some |-> TRUE, v |-> v]
None == [some |-> FALSE]

\* Option::unwrap_or_default
unwrap_or_default(opt) == IF opt.some THEN opt.v ELSE Empty

(***************************************************************************)
(* The database file.                                                      *)
(***************************************************************************)
WALLET_TABLE == "wallet_data"
CHANGESET_KEY == "wallet_changeset"

EmptyRows == [k \in {} |-> <<>>]

NoFile == [exists |-> FALSE, has_table |-> FALSE, rows |-> EmptyRows, damaged |-> FALSE]

\* a file cut down to its first bytes
DamagedFile == [exists |-> TRUE, has_table |-> FALSE, rows |-> EmptyRows, damaged |-> TRUE]

\* a database file newly initialised by the engine: no table yet
NewFile == [exists |-> TRUE, has_table |-> FALSE, rows |-> EmptyRows, damaged |-> FALSE]


(***************************************************************************)
(* The engine calls the adapter makes.  `fault` names the engine call that *)
(* fails during an operation ("none": every call succeeds).                *)
(***************************************************************************)
CreateFaults == {"none", "Database::create", "begin_write", "write.open_table", "commit"}
OpenFaults == {"none", "Database::open"}
ReadFaults == {"none", "begin_read", "read.open_table", "get"}
WriteFaults == {"none", "begin_write", "write.open_table", "to_vec", "insert", "commit"}
PersistFaults == ReadFaults \cup WriteFaults
StatsFaults == {"none", "begin_read", "read.open_table", "stats"}

\* redb::Builder values handed to the *_with_config variants, passed on verbatim
Configs == {"default", "cache_size"}

\* Database::begin_write: the transaction's private copy of the database
begin_write(db) == db

\* WriteTransaction::open_table(WALLET_TABLE): creates the table when missing
open_table(txn) == [txn EXCEPT !.has_table = TRUE]

\* insert as a slip would have it: each write goes under a key of its own
insert_under_new_key(txn, key, value) ==
    [txn EXCEPT !.rows = [k \in DOMAIN txn.rows \cup {"wallet_changeset_new"} |->
                              IF k = "wallet_changeset_new" THEN value ELSE txn.rows[k]]]

\* Table::insert(key, value): insert or overwrite, within the transaction
insert(txn, key, value) ==
    [txn EXCEPT !.rows = [k \in DOMAIN txn.rows \cup {key} |->
                              IF k = key THEN value ELSE txn.rows[k]]]

\* WriteTransaction::commit: the transaction's copy becomes the database
commit(db, txn) == txn

\* Database::create / Builder::create: initialises a new database when no file
\* exists and opens a valid existing one; a file held by a live Database or
\* not a valid database is refused
Database_create(f, locked, fault) ==
    IF fault = "Database::create" \/ (f.exists /\ (locked \/ f.damaged))
    THEN [ok |-> FALSE, db |-> f]
    ELSE [ok |-> TRUE, db |-> IF f.exists THEN f ELSE NewFile]

\* Database::open as a slip would have it: a file held by a live Database is
\* opened once more
Database_open_ignores_lock(f, locked, fault) ==
    IF fault = "Database::open" \/ ~f.exists \/ f.damaged
    THEN [ok |-> FALSE, db |-> f]
    ELSE [ok |-> TRUE, db |-> f]

\* Database::open / Builder::open
Database_open(f, locked, fault) ==
    IF fault = "Database::open" \/ ~f.exists \/ locked \/ f.damaged
    THEN [ok |-> FALSE, db |-> f]
    ELSE [ok |-> TRUE, db |-> f]

\* enum RedbError: the variants an operation can return as its error
RedbError ==
    {"Database", "Serialization", "Deserialization", "Io", "Commit", "Table",
     "Transaction"}

(***************************************************************************)
(* RedbStore.  Each operator gives the file afterwards, the value returned *)
(* and the engine calls made, in order.                                    *)
(***************************************************************************)
Outcome(f, r, s) == [file |-> f, res |-> r, steps |-> s]

\* create as a slip would have it: a file found at the path is truncated and
\* initialised anew
create_truncates(f, locked, fault) ==
    IF fault = "Database::create" \/ (f.exists /\ locked)
    THEN Outcome(f, Err("Database"), <<"Database::create">>)
    ELSE IF fault = "begin_write"
    THEN Outcome(NewFile, Err("Transaction"), <<"Database::create", "begin_write">>)
    ELSE IF fault = "write.open_table"
    THEN Outcome(NewFile, Err("Table"),
             <<"Database::create", "begin_write", "write.open_table">>)
    ELSE IF fault = "commit"
    THEN Outcome(NewFile, Err("Commit"),
             <<"Database::create", "begin_write", "write.open_table", "commit">>)
    ELSE Outcome(commit(NewFile, open_table(begin_write(NewFile))), Ok(Unit),
             <<"Database::create", "begin_write", "write.open_table", "commit">>)

\* RedbStore::create
create(f, locked, fault) ==
    LET d == Database_create(f, locked, fault)
    IN  IF ~d.ok THEN Outcome(f, Err("Database"), <<"Database::create">>)
        ELSE IF fault = "begin_write"
        THEN Outcome(d.db, Err("Transaction"), <<"Database::create", "begin_write">>)
        ELSE LET txn == begin_write(d.db)
             IN  IF fault = "write.open_table"
                 THEN Outcome(d.db, Err("Table"),
                          <<"Database::create", "begin_write", "write.open_table">>)
                 ELSE LET t == open_table(txn)
                      IN  IF fault = "commit"
                          THEN Outcome(d.db, Err("Commit"),
                                   <<"Database::create", "begin_write",
                                     "write.open_table", "commit">>)
                          ELSE Outcome(commit(d.db, t), Ok(Unit),
                                   <<"Database::create", "begin_write",
                                     "write.open_table", "commit">>)

\* RedbStore::create_with_config
create_with_config(f, locked, config, fault) ==
    LET d == Database_create(f, locked, fault)
    IN  IF ~d.ok THEN Outcome(f, Err("Database"), <<"Database::create">>)
        ELSE IF fault = "begin_write"
        THEN Outcome(d.db, Err("Transaction"), <<"Database::create", "begin_write">>)
        ELSE LET txn == begin_write(d.db)
             IN  IF fault = "write.open_table"
                 THEN Outcome(d.db, Err("Table"),
                          <<"Database::create", "begin_write", "write.open_table">>)
                 ELSE LET t == open_table(txn)
                      IN  IF fault = "commit"
                          THEN Outcome(d.db, Err("Commit"),
                                   <<"Database::create", "begin_write",
                                     "write.open_table", "commit">>)
                          ELSE Outcome(commit(d.db, t), Ok(Unit),
                                   <<"Database::create", "begin_write",
                                     "write.open_table", "commit">>)

\* open as a slip would have it: the file is initialised anew, as create does
\* for a path without file
open_recreates(f, locked, fault) ==
    LET d == Database_open(f, locked, fault)
    IN  IF ~d.ok THEN Outcome(f, Err("Database"), <<"Database::open">>)
        ELSE Outcome(open_table(NewFile), Ok(Unit), <<"Database::open">>)

\* open as a slip would have it: a missing file is created
open_creates_missing(f, locked, fault) ==
    LET d == Database_create(f, locked, fault)
    IN  IF ~d.ok THEN Outcome(f, Err("Database"), <<"Database::open">>)
        ELSE Outcome(d.db, Ok(Unit), <<"Database::open">>)

\* open as a slip would have it: the path is opened as a plain file first and
\* the std::io::Error of a missing file is passed on with `?`
open_missing_is_io(f, locked, fault) ==
    LET d == Database_open(f, locked, fault)
    IN  IF ~f.exists THEN Outcome(f, Err("Io"), <<>>)
        ELSE IF ~d.ok THEN Outcome(f, Err("Database"), <<"Database::open">>)
        ELSE Outcome(d.db, Ok(Unit), <<"Database::open">>)

\* open as a slip would have it: while the file is held it tries again and
\* again, and has not returned
open_retries_while_locked(f, locked, fault) ==
    LET d == Database_open(f, locked, fault)
    IN  IF locked THEN Outcome(f, Err("Pending"), <<"Database::open", "Database::open">>)
        ELSE IF ~d.ok THEN Outcome(f, Err("Database"), <<"Database::open">>)
        ELSE Outcome(d.db, Ok(Unit), <<"Database::open">>)

\* RedbStore::open
open(f, locked, fault) ==
    LET d == Database_open(f, locked, fault)
    IN  IF ~d.ok THEN Outcome(f, Err("Database"), <<"Database::open">>)
        ELSE Outcome(d.db, Ok(Unit), <<"Database::open">>)

\* open_with_config as a slip would have it: the table is opened in a write
\* transaction, as create_with_config does
open_with_config_creates_table(f, locked, config, fault) ==
    LET d == Database_open(f, locked, fault)
    IN  IF ~d.ok THEN Outcome(f, Err("Database"), <<"Database::open">>)
        ELSE Outcome(commit(d.db, open_table(begin_write(d.db))), Ok(Unit),
                     <<"Database::open", "begin_write", "write.open_table", "commit">>)

\* RedbStore::open_with_config
open_with_config(f, locked, config, fault) ==
    LET d == Database_open(f, locked, fault)
    IN  IF ~d.ok THEN Outcome(f, Err("Database"), <<"Database::open">>)
        ELSE Outcome(d.db, Ok(Unit), <<"Database::open">>)

\* open_or_create as a slip would have it: no look at the path, always create
open_or_create_always_creates(f, locked, fault) == create(f, locked, fault)

\* RedbStore::open_or_create
open_or_create(f, locked, fault) ==
    IF f.exists THEN open(f, locked, fault) ELSE create(f, locked, fault)

\* RedbStore::table_stats
table_stats(f, fault) ==
    IF fault = "begin_read" THEN Outcome(f, Err("Transaction"), <<"begin_read">>)
    ELSE IF fault = "read.open_table" \/ ~f.has_table
    THEN Outcome(f, Err("Table"), <<"begin_read", "read.open_table">>)
    ELSE IF fault = "stats"
    THEN Outcome(f, Err("Database"), <<"begin_read", "read.open_table", "stats">>)
    ELSE Outcome(f, Ok([entries |-> Cardinality(DOMAIN f.rows)]),
             <<"begin_read", "read.open_table", "stats">>)

\* get_changeset as a slip would have it: a payload that does not decode is
\* read as no record
get_changeset_lenient(f, fault) ==
    IF fault = "begin_read" THEN Outcome(f, Err("Transaction"), <<"begin_read">>)
    ELSE IF fault = "read.open_table" \/ ~f.has_table
    THEN Outcome(f, Err("Table"), <<"begin_read", "read.open_table">>)
    ELSE IF fault = "get"
    THEN Outcome(f, Err("Database"), <<"begin_read", "read.open_table", "get">>)
    ELSE IF CHANGESET_KEY \in DOMAIN f.rows /\ from_slice(f.rows[CHANGESET_KEY]).ok
    THEN Outcome(f, Ok(Some(from_slice(f.rows[CHANGESET_KEY]).val)),
             <<"begin_read", "read.open_table", "get", "from_slice">>)
    ELSE Outcome(f, Ok(None), <<"begin_read", "read.open_table", "get">>)

\* get_changeset as a slip would have it: the decoding error converted by `?`,
\* which makes it the serialization kind
get_changeset_decode_as_serialization(f, fault) ==
    IF fault = "begin_read" THEN Outcome(f, Err("Transaction"), <<"begin_read">>)
    ELSE IF fault = "read.open_table" \/ ~f.has_table
    THEN Outcome(f, Err("Table"), <<"begin_read", "read.open_table">>)
    ELSE IF fault = "get"
    THEN Outcome(f, Err("Database"), <<"begin_read", "read.open_table", "get">>)
    ELSE IF CHANGESET_KEY \in DOMAIN f.rows
    THEN LET changeset == from_slice(f.rows[CHANGESET_KEY])
         IN  IF changeset.ok
             THEN Outcome(f, Ok(Some(changeset.val)),
                      <<"begin_read", "read.open_table", "get", "from_slice">>)
             ELSE Outcome(f, Err("Serialization"),
                      <<"begin_read", "read.open_table", "get", "from_slice">>)
    ELSE Outcome(f, Ok(None), <<"begin_read", "read.open_table", "get">>)

\* RedbStore::get_changeset
get_changeset(f, fault) ==
    IF fault = "begin_read" THEN Outcome(f, Err("Transaction"), <<"begin_read">>)
    ELSE IF fault = "read.open_table" \/ ~f.has_table
    THEN Outcome(f, Err("Table"), <<"begin_read", "read.open_table">>)
    ELSE IF fault = "get"
    THEN Outcome(f, Err("Database"), <<"begin_read", "read.open_table", "get">>)
    ELSE IF CHANGESET_KEY \in DOMAIN f.rows
    THEN LET changeset == from_slice(f.rows[CHANGESET_KEY])
         IN  IF changeset.ok
             THEN Outcome(f, Ok(Some(changeset.val)),
                      <<"begin_read", "read.open_table", "get", "from_slice">>)
             ELSE Outcome(f, Err("Deserialization"),
                      <<"begin_read", "read.open_table", "get", "from_slice">>)
    ELSE Outcome(f, Ok(None), <<"begin_read", "read.open_table", "get">>)

\* store_changeset as a slip would have it: no check for the empty changeset
store_changeset_no_skip(f, changeset, fault) ==
    IF fault = "begin_write" THEN Outcome(f, Err("Transaction"), <<"begin_write">>)
    ELSE IF fault = "write.open_table"
    THEN Outcome(f, Err("Table"), <<"begin_write", "write.open_table">>)
    ELSE IF fault = "to_vec"
    THEN Outcome(f, Err("Serialization"), <<"begin_write", "write.open_table", "to_vec">>)
    ELSE IF fault = "insert"
    THEN Outcome(f, Err("Database"),
             <<"begin_write", "write.open_table", "to_vec", "insert">>)
    ELSE IF fault = "commit"
    THEN Outcome(f, Err("Commit"),
             <<"begin_write", "write.open_table", "to_vec", "insert", "commit">>)
    ELSE Outcome(commit(f, insert(open_table(begin_write(f)), CHANGESET_KEY,
                                  to_vec(changeset))),
             Ok(Unit),
             <<"begin_write", "write.open_table", "to_vec", "insert", "commit">>)

\* store_changeset as a slip would have it: the insert reaches the file outside
\* the transaction, so a failed commit leaves the new payload behind
store_changeset_write_through(f, changeset, fault) ==
    IF is_empty(changeset) THEN Outcome(f, Ok(Unit), <<>>)
    ELSE IF fault = "begin_write" THEN Outcome(f, Err("Transaction"), <<"begin_write">>)
    ELSE IF fault = "write.open_table"
    THEN Outcome(f, Err("Table"), <<"begin_write", "write.open_table">>)
    ELSE IF fault = "to_vec"
    THEN Outcome(f, Err("Serialization"), <<"begin_write", "write.open_table", "to_vec">>)
    ELSE IF fault = "insert"
    THEN Outcome(f, Err("Database"),
             <<"begin_write", "write.open_table", "to_vec", "insert">>)
    ELSE Outcome(insert(open_table(f), CHANGESET_KEY, to_vec(changeset)),
             IF fault = "commit" THEN Err("Commit") ELSE Ok(Unit),
             <<"begin_write", "write.open_table", "to_vec", "insert", "commit">>)

\* store_changeset as a slip would have it: a changeset whose serialization
\* is already the stored payload is not written again
store_changeset_skips_unchanged(f, changeset, fault) ==
    IF is_empty(changeset)
       \/ (CHANGESET_KEY \in DOMAIN f.rows /\ f.rows[CHANGESET_KEY] = to_vec(changeset))
    THEN Outcome(f, Ok(Unit), <<>>)
    ELSE store_changeset_no_skip(f, changeset, fault)

\* RedbStore::store_changeset
store_changeset(f, changeset, fault) ==
    IF is_empty(changeset) THEN Outcome(f, Ok(Unit), <<>>)
    ELSE IF fault = "begin_write" THEN Outcome(f, Err("Transaction"), <<"begin_write">>)
    ELSE LET write_txn == begin_write(f)
         IN  IF fault = "write.open_table"
             THEN Outcome(f, Err("Table"), <<"begin_write", "write.open_table">>)
             ELSE LET table == open_table(write_txn)
                  IN  IF fault = "to_vec"
                      THEN Outcome(f, Err("Serialization"),
                               <<"begin_write", "write.open_table", "to_vec">>)
                      ELSE LET changeset_bytes == to_vec(changeset)
                           IN  IF fault = "insert"
                               THEN Outcome(f, Err("Database"),
                                        <<"begin_write", "write.open_table", "to_vec",
                                          "insert">>)
                               ELSE LET written == insert(table, CHANGESET_KEY,
                                                       changeset_bytes)
                                    IN  IF fault = "commit"
                                        THEN Outcome(f, Err("Commit"),
                                                 <<"begin_write", "write.open_table",
                                                   "to_vec", "insert", "commit">>)
                                        ELSE Outcome(commit(f, written), Ok(Unit),
                                                 <<"begin_write", "write.open_table",
                                                   "to_vec", "insert", "commit">>)

\* initialize as a slip would have it: no record is an error
initialize_absent_is_error(f, fault) ==
    LET got == get_changeset(f, fault)
    IN  IF got.res.ok /\ got.res.val.some THEN Outcome(f, Ok(got.res.val.v), got.steps)
        ELSE IF got.res.ok THEN Outcome(f, Err("Database"), got.steps)
        ELSE Outcome(f, got.res, got.steps)

\* initialize as a slip would have it: a failed read falls back to the empty
\* changeset
initialize_defaults_on_error(f, fault) ==
    LET got == get_changeset(f, fault)
    IN  IF got.res.ok
        THEN Outcome(f, Ok(unwrap_or_default(got.res.val)), got.steps)
        ELSE Outcome(f, Ok(Empty), got.steps)

\* initialize as a slip would have it: where no record is found the default
\* changeset is written as the record
initialize_creates_record(f, fault) ==
    LET got == get_changeset(f, fault)
    IN  IF got.res.ok /\ ~got.res.val.some
        THEN Outcome(commit(f, insert(open_table(begin_write(f)), CHANGESET_KEY,
                                      to_vec(Empty))),
                     Ok(Empty),
                     got.steps \o <<"begin_write", "write.open_table", "to_vec",
                                    "insert", "commit">>)
        ELSE IF got.res.ok THEN Outcome(f, Ok(got.res.val.v), got.steps)
        ELSE Outcome(f, got.res, got.steps)

\* <RedbStore as WalletPersister>::initialize
WalletPersister_initialize(f, fault) ==
    LET got == get_changeset(f, fault)
    IN  IF got.res.ok
        THEN Outcome(f, Ok(unwrap_or_default(got.res.val)), got.steps)
        ELSE Outcome(f, got.res, got.steps)

\* persist as a slip would have it: the new changeset replaces the record
persist_overwrites(f, changeset, fault) ==
    LET existing_changeset == get_changeset(f, fault)
    IN  IF ~existing_changeset.res.ok
        THEN Outcome(f, existing_changeset.res, existing_changeset.steps)
        ELSE LET stored == store_changeset(f, changeset, fault)
             IN  Outcome(stored.file, stored.res,
                     existing_changeset.steps \o stored.steps)

\* persist as a slip would have it: an existing record is written back without
\* the new changeset merged into it
persist_keeps_existing(f, changeset, fault) ==
    LET existing_changeset == get_changeset(f, fault)
    IN  IF ~existing_changeset.res.ok
        THEN Outcome(f, existing_changeset.res, existing_changeset.steps)
        ELSE LET final_changeset ==
                     IF existing_changeset.res.val.some
                     THEN existing_changeset.res.val.v
                     ELSE changeset
                 stored == store_changeset(f, final_changeset, fault)
             IN  Outcome(stored.file, stored.res,
                     existing_changeset.steps \o stored.steps)

\* persist as a slip would have it: a failed read counts as no record
persist_ignores_read_error(f, changeset, fault) ==
    LET existing_changeset == get_changeset(f, fault)
        final_changeset ==
            IF existing_changeset.res.ok /\ existing_changeset.res.val.some
            THEN merge(existing_changeset.res.val.v, changeset)
            ELSE changeset
        stored == store_changeset(f, final_changeset, fault)
    IN  Outcome(stored.file, stored.res, existing_changeset.steps \o stored.steps)

\* persist as a slip would have it: with no record the default changeset is
\* stored in place of the new one
persist_absent_stores_default(f, changeset, fault) ==
    LET existing_changeset == get_changeset(f, fault)
    IN  IF ~existing_changeset.res.ok
        THEN Outcome(f, existing_changeset.res, existing_changeset.steps)
        ELSE LET final_changeset ==
                     IF existing_changeset.res.val.some
                     THEN merge(existing_changeset.res.val.v, changeset)
                     ELSE Empty
                 stored == store_changeset(f, final_changeset, fault)
             IN  Outcome(stored.file, stored.res,
                     existing_changeset.steps \o stored.steps)

\* <RedbStore as WalletPersister>::persist
WalletPersister_persist(f, changeset, fault) ==
    LET existing_changeset == get_changeset(f, fault)
    IN  IF ~existing_changeset.res.ok
        THEN Outcome(f, existing_changeset.res, existing_changeset.steps)
        ELSE LET final_changeset ==
                     IF existing_changeset.res.val.some
                     THEN merge(existing_changeset.res.val.v, changeset)
                     ELSE changeset
                 stored == store_changeset(f, final_changeset, fault)
             IN  Outcome(stored.file, stored.res,
                     existing_changeset.steps \o stored.steps)

\* <RedbStore as AsyncWalletPersister>::initialize: the output of the future
\* it returns, polled while the file is f
AsyncWalletPersister_initialize(f, fault) ==
    LET got == get_changeset(f, fault)
    IN  IF got.res.ok
        THEN Outcome(f, Ok(unwrap_or_default(got.res.val)), got.steps)
        ELSE Outcome(f, got.res, got.steps)

\* the asynchronous persist as a slip would have it: the new changeset
\* replaces the record
async_persist_overwrites(f, changeset, fault) ==
    LET existing_changeset == get_changeset(f, fault)
    IN  IF ~existing_changeset.res.ok
        THEN Outcome(f, existing_changeset.res, existing_changeset.steps)
        ELSE LET stored == store_changeset(f, changeset, fault)
             IN  Outcome(stored.file, stored.res,
                     existing_changeset.steps \o stored.steps)

\* <RedbStore as AsyncWalletPersister>::persist: the output of the future it
\* returns, polled while the file is f
AsyncWalletPersister_persist(f, changeset, fault) ==
    LET existing_changeset == get_changeset(f, fault)
    IN  IF ~existing_changeset.res.ok
        THEN Outcome(f, existing_changeset.res, existing_changeset.steps)
        ELSE LET final_changeset ==
                     IF existing_changeset.res.val.some
                     THEN merge(existing_changeset.res.val.v, changeset)
                     ELSE changeset
                 stored == store_changeset(f, final_changeset, fault)
             IN  Outcome(stored.file, stored.res,
                     existing_changeset.steps \o stored.steps)

(***************************************************************************)
(* State.                                                                  *)
(***************************************************************************)
VARIABLES
    file,     \* the database file at the path
    stores,   \* the live RedbStore values on the path, oldest first
    fut,      \* the future of the asynchronous contract not yet polled
    last,     \* the most recent call: its name and the value it returned
    log,      \* history: the changesets persisted to the file since it exists
    tasks     \* the tasks that share one wallet and one Store behind mutexes

vars == <<file, stores, fut, last, log, tasks>>

\* live stores the model follows
MaxStores == 2

NoFut == [pending |-> FALSE, op |-> "none", changeset |-> Empty]

Store(via) == [via |-> via]

Locked == stores /= <<>>

Returned(op, res) == [op |-> op, res |-> res]

\* a Store value is live and no future borrows it
Usable == stores /= <<>> /\ ~fut.pending

\* the tasks of test_async_concurrent_operations, one per address revealed
Tasks == 0..MaxIndex

\* a tokio Mutex: free, or its guard held by a task or by the test's main body
Unlocked == [held |-> FALSE, by |-> "none", id |-> 0]
HeldByTask(t) == [held |-> TRUE, by |-> "task", id |-> t]
HeldByMain == [held |-> TRUE, by |-> "main", id |-> 0]

\* no task spawned, both mutexes free, the wallet with nothing revealed or staged
NoTasks ==
    [main |-> "none", pc |-> [t \in Tasks |-> "unspawned"],
     wallet_guard |-> Unlocked, store_guard |-> Unlocked,
     next_index |-> 0, stage |-> Empty]

Init ==
    /\ file = NoFile
    /\ stores = <<>>
    /\ fut = NoFut
    /\ last = Returned("none", Ok(Unit))
    /\ log = <<>>
    /\ tasks = NoTasks

\* the effect of a create/open variant whose outcome is o
Opened(op, via, fault, o) ==
    /\ file' = o.file
    /\ stores' = IF o.res.ok THEN Append(stores, Store(via)) ELSE stores
    /\ last' = Returned(op, o.res)
    /\ UNCHANGED <<fut, log, tasks>>

Create ==
    /\ Len(stores) < MaxStores
    /\ \E fault \in CreateFaults :
           Opened("create", "create", fault, create(file, Locked, fault))

CreateWithConfig ==
    /\ Len(stores) < MaxStores
    /\ \E fault \in CreateFaults, config \in Configs :
           Opened("create_with_config", "create", fault,
                  create_with_config(file, Locked, config, fault))

Open ==
    /\ Len(stores) < MaxStores
    /\ \E fault \in OpenFaults :
           Opened("open", "open", fault, open(file, Locked, fault))

OpenWithConfig ==
    /\ Len(stores) < MaxStores
    /\ \E fault \in OpenFaults, config \in Configs :
           Opened("open_with_config", "open", fault,
                  open_with_config(file, Locked, config, fault))

OpenOrCreate ==
    /\ Len(stores) < MaxStores
    /\ \E fault \in CreateFaults \cup OpenFaults :
           Opened("open_or_create", IF file.exists THEN "open" ELSE "create", fault,
                  open_or_create(file, Locked, fault))

\* drop as a slip would have it: the Store is gone but the file stays held
Drop_keeps_file_held ==
    /\ Usable
    /\ last' = Returned("drop", Ok(Unit))
    /\ UNCHANGED <<file, stores, fut, log, tasks>>

\* drop(store): the Database closes and releases the file
Drop ==
    /\ Usable
    /\ stores' = Tail(stores)
    /\ last' = Returned("drop", Ok(Unit))
    /\ UNCHANGED <<file, fut, log, tasks>>

TableStats ==
    /\ Usable
    /\ \E fault \in StatsFaults :
           last' = Returned("table_stats", table_stats(file, fault).res)
    /\ UNCHANGED <<file, stores, fut, log, tasks>>

\* the effect of a persist of changeset whose outcome is o
Persisted(op, changeset, fault, o) ==
    /\ file' = o.file
    /\ last' = Returned(op, o.res)
    /\ log' = IF o.res.ok THEN Append(log, changeset) ELSE log
    /\ UNCHANGED stores

Initialize ==
    /\ Usable
    /\ \E fault \in ReadFaults :
           LET o == WalletPersister_initialize(file, fault)
           IN  /\ file' = o.file
               /\ last' = Returned("initialize", o.res)
    /\ UNCHANGED <<stores, fut, log, tasks>>

Persist ==
    /\ Usable
    /\ Len(log) < MaxPersists
    /\ \E changeset \in ChangeSets, fault \in PersistFaults :
           Persisted("persist", changeset, fault,
                     WalletPersister_persist(file, changeset, fault))
    /\ UNCHANGED <<fut, tasks>>

\* AsyncWalletPersister::initialize(&mut store): returns the boxed future
AsyncInitialize ==
    /\ Usable
    /\ fut' = [pending |-> TRUE, op |-> "initialize", changeset |-> Empty]
    /\ last' = Returned("async_initialize", Err("Pending"))
    /\ UNCHANGED <<file, stores, log, tasks>>

\* the asynchronous persist as a slip would have it: the read, merge and
\* write run in the call, before the future is boxed
AsyncPersist_eager ==
    /\ Usable
    /\ Len(log) < MaxPersists
    /\ \E changeset \in ChangeSets :
           LET o == AsyncWalletPersister_persist(file, changeset, "none")
           IN  /\ file' = o.file
               /\ log' = IF o.res.ok THEN Append(log, changeset) ELSE log
               /\ fut' = [pending |-> TRUE, op |-> "persist", changeset |-> changeset]
    /\ last' = Returned("async_persist", Err("Pending"))
    /\ UNCHANGED <<stores, tasks>>

\* AsyncWalletPersister::persist(&mut store, &changeset): returns the boxed future
AsyncPersist ==
    /\ Usable
    /\ Len(log) < MaxPersists
    /\ \E changeset \in ChangeSets :
           fut' = [pending |-> TRUE, op |-> "persist", changeset |-> changeset]
    /\ last' = Returned("async_persist", Err("Pending"))
    /\ UNCHANGED <<file, stores, log, tasks>>

\* .await on the future of initialize: the async block runs to its end
PollInitialize ==
    /\ fut.pending /\ fut.op = "initialize"
    /\ \E fault \in ReadFaults :
           LET o == AsyncWalletPersister_initialize(file, fault)
           IN  /\ file' = o.file
               /\ last' = Returned("poll_initialize", o.res)
    /\ fut' = NoFut
    /\ UNCHANGED <<stores, log, tasks>>

\* the poll of persist as it would be with an await in the async block: the
\* future suspends and stays pending
PollPersist_yields ==
    /\ fut.pending /\ fut.op = "persist"
    /\ last' = Returned("poll_persist", Err("Pending"))
    /\ UNCHANGED <<file, stores, fut, log, tasks>>

\* .await on the future of persist: the async block runs to its end
PollPersist ==
    /\ fut.pending /\ fut.op = "persist"
    /\ \E fault \in PersistFaults :
           Persisted("poll_persist", fut.changeset, fault,
                     AsyncWalletPersister_persist(file, fut.changeset, fault))
    /\ fut' = NoFut
    /\ UNCHANGED tasks

\* the future is dropped without being polled
DropFuture ==
    /\ fut.pending
    /\ fut' = NoFut
    /\ last' = Returned("drop_future", Ok(Unit))
    /\ UNCHANGED <<file, stores, log, tasks>>

\* fs::remove_file(path), with no Store live
RemoveFile ==
    /\ stores = <<>>
    /\ file.exists
    /\ file' = NoFile
    /\ log' = <<>>
    /\ last' = Returned("remove_file", Ok(Unit))
    /\ UNCHANGED <<stores, fut, tasks>>

Next ==
    \/ Create
    \/ CreateWithConfig
    \/ Open
    \/ OpenWithConfig
    \/ OpenOrCreate
    \/ Drop
    \/ TableStats
    \/ Initialize
    \/ Persist
    \/ AsyncInitialize
    \/ AsyncPersist
    \/ PollInitialize
    \/ PollPersist
    \/ DropFuture
    \/ RemoveFile

Spec == Init /\ [][Next]_vars

(***************************************************************************)
(* The file damaged from outside the adapter, with no Store live.          *)
(***************************************************************************)
\* the payload of a sound record cut short: emptied, or its last byte lost
CorruptRecord ==
    /\ stores = <<>>
    /\ file.exists /\ ~file.damaged
    /\ CHANGESET_KEY \in DOMAIN file.rows
    /\ from_slice(file.rows[CHANGESET_KEY]).ok
    /\ \E n \in {0, Len(file.rows[CHANGESET_KEY]) - 1} :
           file' = [file EXCEPT !.rows[CHANGESET_KEY] = SubSeq(@, 1, n)]
    /\ last' = Returned("corrupt_record", Ok(Unit))
    /\ UNCHANGED <<stores, fut, log, tasks>>

\* OpenOptions::new().write(true).open(path) and file.set_len(100): what is
\* left is no database, and holds nothing of what was persisted
TruncateFile ==
    /\ stores = <<>>
    /\ file.exists /\ ~file.damaged
    /\ file' = DamagedFile
    /\ log' = <<>>
    /\ last' = Returned("truncate_file", Ok(Unit))
    /\ UNCHANGED <<stores, fut, tasks>>

NextDamage ==
    \/ Next
    \/ CorruptRecord
    \/ TruncateFile

SpecDamage == Init /\ [][NextDamage]_vars

(***************************************************************************)
(* open_or_create in two steps, file_path.exists() and then the open or    *)
(* create it chose, with another actor on the same path free to create the *)
(* database in between.                                                    *)
(***************************************************************************)
\* file_path.exists() has answered and the call it chose is still to come
Racing == last.op \in {"exists_check", "other_created"}

\* open_or_create's file_path.exists()
ExistsCheck ==
    /\ ~Racing
    /\ Len(stores) < MaxStores
    /\ last' = Returned("exists_check", Ok([exists |-> file.exists]))
    /\ UNCHANGED <<file, stores, fut, log, tasks>>

\* another actor creates the database at the path after exists() found none;
\* by the time open_or_create goes on it has persisted a changeset, and has
\* either closed its Store or still holds it
OtherActorCreates ==
    /\ last.op = "exists_check" /\ ~last.res.val.exists
    /\ ~file.exists
    /\ \E changeset \in ChangeSets, closed \in BOOLEAN :
           /\ file' = WalletPersister_persist(create(file, FALSE, "none").file,
                                              changeset, "none").file
           /\ log' = <<changeset>>
           /\ stores' = IF closed THEN stores ELSE Append(stores, Store("create"))
    /\ last' = Returned("other_created", last.res)
    /\ UNCHANGED <<fut, tasks>>

\* open_or_create goes on with the call exists() chose
OpenOrCreateAct ==
    /\ Racing
    /\ \E fault \in CreateFaults \cup OpenFaults :
           IF last.res.val.exists
               THEN Opened("open_or_create", "open", fault, open(file, Locked, fault))
               ELSE Opened("open_or_create", "create", fault, create(file, Locked, fault))

\* every other operation, between two calls of open_or_create
RaceSettled == ~Racing /\ Next

NextRace ==
    \/ ExistsCheck
    \/ OtherActorCreates
    \/ OpenOrCreateAct
    \/ RaceSettled

SpecRace == Init /\ [][NextRace]_vars

(***************************************************************************)
(* persist in two steps, its read transaction and then its write           *)
(* transaction, with whatever other callers can do in between.  The call   *)
(* holds the Store by &mut from its start to its return, so in between     *)
(* nothing is called on that Store; what is left to others is to try to    *)
(* create or open a Store on the file, and to persist through a second     *)
(* Store should one be live.                                               *)
(***************************************************************************)
\* a persist has read the record and has not yet stored the merge
MidPersist == last.op = "persist_read"

\* persist, blocking or polled: let existing_changeset = get_changeset()?
PersistRead ==
    /\ Usable
    /\ Len(log) < MaxPersists
    /\ \E changeset \in ChangeSets, fault \in ReadFaults :
           LET existing_changeset == get_changeset(file, fault)
           IN  IF existing_changeset.res.ok
               THEN /\ fut' = [pending |-> TRUE, op |-> "persist",
                               changeset |-> changeset]
                    /\ last' = Returned("persist_read", existing_changeset.res)
               ELSE /\ fut' = fut
                    /\ last' = Returned("persist_return", existing_changeset.res)
    /\ UNCHANGED <<file, stores, log, tasks>>

\* persist, from the match on what was read to store_changeset(&final_changeset)
PersistWrite ==
    /\ MidPersist
    /\ \E fault \in WriteFaults :
           LET final_changeset ==
                   IF last.res.val.some THEN merge(last.res.val.v, fut.changeset)
                   ELSE fut.changeset
               stored == store_changeset(file, final_changeset, fault)
           IN  /\ file' = stored.file
               /\ last' = Returned("persist_return", stored.res)
               /\ log' = IF stored.res.ok THEN Append(log, fut.changeset) ELSE log
    /\ fut' = NoFut
    /\ UNCHANGED <<stores, tasks>>

\* what another caller does while the persist is between its transactions
Meanwhile ==
    /\ MidPersist
    /\ \E attempt \in {"create", "open", "open_or_create"}
                      \cup (IF Len(stores) > 1 THEN {"persist"} ELSE {}) :
           IF attempt = "persist"
           THEN /\ Len(log) < MaxPersists
                /\ \E changeset \in ChangeSets :
                       LET o == WalletPersister_persist(file, changeset, "none")
                       IN  /\ file' = o.file
                           /\ log' = IF o.res.ok THEN Append(log, changeset) ELSE log
                /\ UNCHANGED stores
           ELSE /\ Len(stores) < MaxStores
                /\ LET o == CASE attempt = "create" -> create(file, Locked, "none")
                              [] attempt = "open" -> open(file, Locked, "none")
                              [] OTHER -> open_or_create(file, Locked, "none")
                   IN  /\ file' = o.file
                       /\ stores' = IF o.res.ok THEN Append(stores, Store("open"))
                                    ELSE stores
                /\ UNCHANGED log
    /\ UNCHANGED <<fut, last, tasks>>

\* every operation as a whole, while no persist is between its transactions
PersistSettled == ~MidPersist /\ Next

NextSplit ==
    \/ PersistRead
    \/ PersistWrite
    \/ Meanwhile
    \/ PersistSettled

SpecSplit == Init /\ [][NextSplit]_vars

(***************************************************************************)
(* test_async_concurrent_operations: one task per address to reveal, all   *)
(* sharing one wallet and one Store, each behind a tokio Mutex.  A task    *)
(* locks the wallet, reveals the next address, locks the Store, persists   *)
(* what the wallet has staged and returns, which drops both guards.  The   *)
(* test's main body spawns the tasks in order, joins them, then looks at   *)
(* the wallet and loads the wallet anew from the Store.  The tasks run in  *)
(* any interleaving; a lock().await on a held mutex waits.                 *)
(***************************************************************************)
\* what PersistedWallet::create_async persisted: the chain's first block, no
\* address revealed
Genesis == [indexer |-> EmptyMap, local_chain |-> [h \in Heights |-> 1]]

\* what reveal_next_address stages: index i is the last revealed
Revealed(i) == [indexer |-> [d \in Descriptors |-> i], local_chain |-> EmptyMap]

\* the Store created, the wallet created on it, both put behind their mutex
InitTasks ==
    /\ file = insert(open_table(NewFile), CHANGESET_KEY, to_vec(Genesis))
    /\ stores = <<Store("create")>>
    /\ fut = NoFut
    /\ last = Returned("poll_persist", Ok(Unit))
    /\ log = <<Genesis>>
    /\ tasks = [NoTasks EXCEPT !.main = "spawn"]

\* tokio::spawn of task t, in the order of the loop
Spawn(t) ==
    /\ tasks.main = "spawn"
    /\ tasks.pc[t] = "unspawned"
    /\ \A u \in Tasks : u < t => tasks.pc[u] /= "unspawned"
    /\ tasks' = [tasks EXCEPT !.pc[t] = "lock_wallet"]
    /\ UNCHANGED <<file, stores, fut, last, log>>

\* wallet_clone.lock().await
TaskLockWallet(t) ==
    /\ tasks.pc[t] = "lock_wallet"
    /\ ~tasks.wallet_guard.held
    /\ tasks' = [tasks EXCEPT !.pc[t] = "reveal", !.wallet_guard = HeldByTask(t)]
    /\ UNCHANGED <<file, stores, fut, last, log>>

\* wallet_guard.reveal_next_address(KeychainKind::External)
TaskReveal(t) ==
    /\ tasks.pc[t] = "reveal"
    /\ tasks.next_index <= MaxIndex
    /\ tasks' = [tasks EXCEPT !.pc[t] = "lock_store",
                              !.stage = merge(@, Revealed(tasks.next_index)),
                              !.next_index = @ + 1]
    /\ UNCHANGED <<file, stores, fut, last, log>>

\* store_clone.lock().await
TaskLockStore(t) ==
    /\ tasks.pc[t] = "lock_store"
    /\ ~tasks.store_guard.held
    /\ tasks' = [tasks EXCEPT !.pc[t] = "persist", !.store_guard = HeldByTask(t)]
    /\ UNCHANGED <<file, stores, fut, last, log>>

\* wallet_guard.persist_async(&mut *store_guard): the future of
\* AsyncWalletPersister::persist on what the wallet has staged
TaskPersistAsync(t) ==
    /\ tasks.pc[t] = "persist"
    /\ ~fut.pending
    /\ fut' = [pending |-> TRUE, op |-> "persist", changeset |-> tasks.stage]
    /\ tasks' = [tasks EXCEPT !.pc[t] = "await"]
    /\ UNCHANGED <<file, stores, last, log>>

\* .await.unwrap(): the future runs to its end; Ok empties the stage, Err
\* panics the task, whose unwinding drops both guards
TaskPoll(t) ==
    /\ tasks.pc[t] = "await"
    /\ fut.pending /\ fut.op = "persist"
    /\ \E fault \in PersistFaults :
           LET o == AsyncWalletPersister_persist(file, fut.changeset, fault)
           IN  /\ Persisted("poll_persist", fut.changeset, fault, o)
               /\ tasks' = IF o.res.ok
                           THEN [tasks EXCEPT !.pc[t] = "return", !.stage = Empty]
                           ELSE [tasks EXCEPT !.pc[t] = "panicked",
                                              !.wallet_guard = Unlocked,
                                              !.store_guard = Unlocked]
    /\ fut' = NoFut

\* the task's end as a slip would have it: the guard of the wallet is kept
TaskReturn_keeps_wallet_guard(t) ==
    /\ tasks.pc[t] = "return"
    /\ tasks' = [tasks EXCEPT !.pc[t] = "done", !.store_guard = Unlocked]
    /\ UNCHANGED <<file, stores, fut, last, log>>

\* the task returns the address: store_guard and wallet_guard are dropped
TaskReturn(t) ==
    /\ tasks.pc[t] = "return"
    /\ tasks' = [tasks EXCEPT !.pc[t] = "done",
                              !.store_guard = Unlocked,
                              !.wallet_guard = Unlocked]
    /\ UNCHANGED <<file, stores, fut, last, log>>

\* join_all(tasks).await and assert!(result.is_ok()) for each
MainJoin ==
    /\ tasks.main = "spawn"
    /\ \A t \in Tasks : tasks.pc[t] \in {"done", "panicked"}
    /\ tasks' = [tasks EXCEPT !.main = IF \E t \in Tasks : tasks.pc[t] = "panicked"
                                       THEN "assert_failed" ELSE "lock_wallet"]
    /\ UNCHANGED <<file, stores, fut, last, log>>

\* shared_wallet.lock().await
MainLockWallet ==
    /\ tasks.main = "lock_wallet"
    /\ ~tasks.wallet_guard.held
    /\ tasks' = [tasks EXCEPT !.main = "peek", !.wallet_guard = HeldByMain]
    /\ UNCHANGED <<file, stores, fut, last, log>>

\* peek_address on the shared wallet, then drop(wallet_guard)
MainPeek ==
    /\ tasks.main = "peek"
    /\ tasks' = [tasks EXCEPT !.main = "lock_store", !.wallet_guard = Unlocked]
    /\ UNCHANGED <<file, stores, fut, last, log>>

\* shared_store.lock().await
MainLockStore ==
    /\ tasks.main = "lock_store"
    /\ ~tasks.store_guard.held
    /\ tasks' = [tasks EXCEPT !.main = "load", !.store_guard = HeldByMain]
    /\ UNCHANGED <<file, stores, fut, last, log>>

\* PersistedWallet::load_async(&mut *store_guard, ..): the future of
\* AsyncWalletPersister::initialize
MainLoadAsync ==
    /\ tasks.main = "load"
    /\ ~fut.pending
    /\ fut' = [pending |-> TRUE, op |-> "initialize", changeset |-> Empty]
    /\ tasks' = [tasks EXCEPT !.main = "await_load"]
    /\ UNCHANGED <<file, stores, last, log>>

\* .await.unwrap() of the load, and the end of the test
MainPollLoad ==
    /\ tasks.main = "await_load"
    /\ fut.pending /\ fut.op = "initialize"
    /\ \E fault \in ReadFaults :
           LET o == AsyncWalletPersister_initialize(file, fault)
           IN  /\ file' = o.file
               /\ last' = Returned("poll_initialize", o.res)
               /\ tasks' = [tasks EXCEPT !.main = IF o.res.ok THEN "done"
                                                  ELSE "assert_failed",
                                         !.store_guard = Unlocked]
    /\ fut' = NoFut
    /\ UNCHANGED <<stores, log>>

NextTasks ==
    \/ \E t \in Tasks : Spawn(t)
    \/ \E t \in Tasks : TaskLockWallet(t)
    \/ \E t \in Tasks : TaskReveal(t)
    \/ \E t \in Tasks : TaskLockStore(t)
    \/ \E t \in Tasks : TaskPersistAsync(t)
    \/ \E t \in Tasks : TaskPoll(t)
    \/ \E t \in Tasks : TaskReturn(t)
    \/ MainJoin
    \/ MainLockWallet
    \/ MainPeek
    \/ MainLockStore
    \/ MainLoadAsync
    \/ MainPollLoad

SpecTasks == InitTasks /\ [][NextTasks]_vars

(***************************************************************************)
(* Vocabulary of the properties.                                           *)
(***************************************************************************)
\* the single merge of the changesets of a sequence, in order
RECURSIVE MergeAll(_)
MergeAll(s) == IF s = <<>> THEN Empty ELSE merge(Head(s), MergeAll(Tail(s)))

NonEmpty == {c \in ChangeSets : ~is_empty(c)}

HasRecord(f) == CHANGESET_KEY \in DOMAIN f.rows

\* the reserved record is present and its payload does not decode
Undecodable(f) == f.has_table /\ HasRecord(f) /\ ~from_slice(f.rows[CHANGESET_KEY]).ok

\* what a reader of the file sees of the record, the engine working
Stored(f) == get_changeset(f, "none").res

LifecycleOps == {"create", "create_with_config", "open", "open_with_config", "open_or_create"}
InitializeOps == {"initialize", "poll_initialize"}
PersistOps == {"persist", "poll_persist"}

\* a Store has just been returned by create or open and nothing was called on
\* it yet; every file content a live Store can meet occurs in such a state,
\* since a Store can always be dropped and the file opened again
SessionStart == stores /= <<>> /\ last.op \in LifecycleOps /\ last.res.ok

\* a Store has just been returned by open; every file content a live Store
\* can meet occurs in such a state too
JustOpened == stores /= <<>> /\ last.op = "open" /\ last.res.ok

\* the engine calls that precede the decoding of the record in a read
BeforeDecode == {"begin_read", "read.open_table", "get"}

(***************************************************************************)
(* C1..C10                                                                 *)
(***************************************************************************)
\* C1: after any sequence of successful persist calls (of either contract) on a
\* file, the stored record is the single merge of all their changesets in
\* order (no record when that merge is empty), and initialize of either
\* contract returns that merge; a second persist leaves the union of both
\* changesets, not the second alone.
C1_PersistsAccumulate ==
    file.has_table =>
        /\ is_empty(MergeAll(log)) => ~HasRecord(file)
        /\ ~is_empty(MergeAll(log)) =>
               /\ HasRecord(file)
               /\ from_slice(file.rows[CHANGESET_KEY]) = [ok |-> TRUE, val |-> MergeAll(log)]
        /\ WalletPersister_initialize(file, "none").res = Ok(MergeAll(log))
        /\ AsyncWalletPersister_initialize(file, "none").res = Ok(MergeAll(log))

\* C1 witness: two non-empty changesets were persisted, the second call has just
\* returned Ok, and the record holds their union, which is neither of them.
C1_Witness ==
    /\ last.op \in PersistOps /\ last.res.ok
    /\ Len(log) = 2 /\ ~is_empty(log[1]) /\ ~is_empty(log[2])
    /\ MergeAll(log) /= log[1] /\ MergeAll(log) /= log[2]
    /\ Stored(file) = Ok(Some(MergeAll(log)))

\* C2: from every file state a Store can be opened on, and for all changesets
\* A and B, persist(A) followed by persist(B) leaves the same stored record
\* (presence and decoded value) as the single call persist(merge(A, B)), in
\* the synchronous and in the asynchronous contract.
C2_PersistTwiceIsPersistMerged ==
    JustOpened =>
        \A A \in ChangeSets, B \in ChangeSets :
            /\ Stored(WalletPersister_persist(
                          WalletPersister_persist(file, A, "none").file, B, "none").file)
                   = Stored(WalletPersister_persist(file, merge(A, B), "none").file)
            /\ Stored(AsyncWalletPersister_persist(
                          AsyncWalletPersister_persist(file, A, "none").file, B, "none").file)
                   = Stored(AsyncWalletPersister_persist(file, merge(A, B), "none").file)

\* C2 witness: a Store is opened on a file that holds a record, and there are A and
\* B, with a merge that is neither of them, whose two persists both change the
\* record.
C2_Witness ==
    /\ JustOpened /\ HasRecord(file)
    /\ \E A \in NonEmpty, B \in NonEmpty :
           LET afterA == WalletPersister_persist(file, A, "none").file
               afterB == WalletPersister_persist(afterA, B, "none").file
           IN  /\ merge(A, B) /= A /\ merge(A, B) /= B
               /\ afterA /= file /\ afterB /= afterA
               /\ afterB = WalletPersister_persist(file, merge(A, B), "none").file

\* C3: round trip: for every non-empty changeset C, store_changeset(C) on a live
\* Store succeeds when the engine does, and get_changeset then returns Some of
\* a changeset equal to C.
C3_StoreThenGetRoundTrip ==
    stores /= <<>> =>
        \A C \in NonEmpty :
            LET stored == store_changeset(file, C, "none")
            IN  /\ stored.res = Ok(Unit)
                /\ get_changeset(stored.file, "none").res = Ok(Some(C))

\* C3 witness: a single changeset with both parts set was persisted to a file
\* without record, which stores it as it is, and initialize has returned it.
C3_Witness ==
    /\ last.op \in InitializeOps
    /\ Len(log) = 1 /\ DOMAIN log[1].indexer /= {} /\ DOMAIN log[1].local_chain /= {}
    /\ last.res = Ok(log[1])

\* C4: on a Store returned by create on a file never persisted to, initialize
\* of either contract returns Ok with the empty changeset when the engine's
\* reads succeed; whatever the engine does, every initialize that returned on
\* such a Store returned Ok(empty) or the error of an engine call, never a
\* deserialization error.  Files created after an earlier file at the path was
\* removed are among the states checked.
C4_InitializeFreshIsEmpty ==
    (stores /= <<>> /\ stores[1].via = "create" /\ log = <<>>) =>
        /\ WalletPersister_initialize(file, "none").res = Ok(Empty)
        /\ AsyncWalletPersister_initialize(file, "none").res = Ok(Empty)
        /\ last.op \in InitializeOps =>
               \/ last.res = Ok(Empty)
               \/ last.res.kind \in {"Transaction", "Table", "Database"}

\* C4 witness: initialize has just returned Ok(empty) on a created Store whose
\* file was never persisted to.
C4_Witness ==
    /\ stores /= <<>> /\ stores[1].via = "create" /\ log = <<>>
    /\ last.op = "initialize" /\ last.res = Ok(Empty)

\* C5: in every state with a live Store, record absent or present, persist of
\* the empty changeset leaves the file as it is (same presence, same bytes),
\* whether it succeeds or an engine call fails, in both contracts; so
\* initialize returns afterwards what it returned before.
C5_PersistEmptyChangesNothing ==
    stores /= <<>> =>
        \A fault \in PersistFaults :
            /\ WalletPersister_persist(file, Empty, fault).file = file
            /\ AsyncWalletPersister_persist(file, Empty, fault).file = file

\* C5 witness: a persist of the empty changeset has just returned Ok on a file
\* that holds a record.
C5_Witness ==
    /\ last.op \in PersistOps /\ last.res.ok
    /\ log /= <<>> /\ log[Len(log)] = Empty
    /\ HasRecord(file)

\* C6: durability across sessions: whenever a Store has just been opened on the
\* file, by open or by create, what initialize reads is exactly the merge of
\* everything persisted to the file in the sessions before, and every
\* initialize that returned Ok, in whatever session, returned the merge of
\* everything persisted so far.
C6_ReopenKeepsPersisted ==
    /\ (SessionStart /\ file.has_table) =>
           WalletPersister_initialize(file, "none").res = Ok(MergeAll(log))
    /\ (last.op \in InitializeOps /\ last.res.ok) => last.res.val = MergeAll(log)

\* C6 witness: open has just returned a Store on a file to which two non-empty
\* changesets were persisted in earlier sessions; their union is on the file.
C6_Witness ==
    /\ stores /= <<>> /\ last.op = "open" /\ last.res.ok
    /\ Len(log) = 2 /\ ~is_empty(log[1]) /\ ~is_empty(log[2])
    /\ MergeAll(log) /= log[1] /\ MergeAll(log) /= log[2]
    /\ Stored(file) = Ok(Some(MergeAll(log)))

\* C7: write atomicity, on every file state a Store can be opened on: for
\* store_changeset of a non-empty changeset, and for
\* persist of any changeset, if an engine call up to and including commit
\* fails the file is left exactly as it was and a reader sees the prior value;
\* if the call returns Ok a reader sees the new value (for persist, the merged
\* changeset when that is non-empty).
C7_WriteIsAtomic ==
    JustOpened =>
        /\ \A C \in NonEmpty, fault \in WriteFaults :
               LET o == store_changeset(file, C, fault)
               IN  IF o.res.ok
                   THEN fault = "none" /\ Stored(o.file) = Ok(Some(C))
                   ELSE o.file = file /\ Stored(o.file) = Stored(file)
        /\ \A C \in ChangeSets, fault \in PersistFaults :
               LET o == WalletPersister_persist(file, C, fault)
                   final == IF Stored(file).ok /\ Stored(file).val.some
                            THEN merge(Stored(file).val.v, C) ELSE C
               IN  IF o.res.ok
                   THEN is_empty(final) \/ Stored(o.file) = Ok(Some(final))
                   ELSE o.file = file /\ Stored(o.file) = Stored(file)

\* C7 witness: a persist has just failed at commit on a file that holds a
\* record, and the record is still the merge of what was persisted before.
C7_Witness ==
    /\ last.op = "persist" /\ last.res = Err("Commit")
    /\ log /= <<>> /\ HasRecord(file)
    /\ Stored(file) = Ok(Some(MergeAll(log)))

\* C8: a record that is present but does not decode is never read as absent:
\* get_changeset and initialize of both contracts return the deserialization
\* error when the engine's reads succeed, and never Ok whatever the engine
\* does; and a damaged file is refused by open, open_with_config and
\* open_or_create with the database error.
C8_UndecodableIsAnError ==
    /\ (stores /= <<>> /\ Undecodable(file)) =>
           /\ get_changeset(file, "none").res = Err("Deserialization")
           /\ WalletPersister_initialize(file, "none").res = Err("Deserialization")
           /\ AsyncWalletPersister_initialize(file, "none").res = Err("Deserialization")
           /\ \A fault \in ReadFaults :
                  /\ ~get_changeset(file, fault).res.ok
                  /\ ~WalletPersister_initialize(file, fault).res.ok
                  /\ ~AsyncWalletPersister_initialize(file, fault).res.ok
           /\ last.op \in InitializeOps => ~last.res.ok
    /\ file.damaged =>
           /\ \A fault \in OpenFaults, config \in Configs :
                  /\ open(file, Locked, fault).res = Err("Database")
                  /\ open_with_config(file, Locked, config, fault).res = Err("Database")
           /\ \A fault \in OpenFaults \cup CreateFaults :
                  open_or_create(file, Locked, fault).res = Err("Database")
           /\ stores = <<>>

\* C8 witness: initialize has just returned the deserialization error on a
\* Store whose file holds a record that does not decode.
C8_Witness ==
    /\ stores /= <<>> /\ Undecodable(file)
    /\ last.op = "initialize" /\ last.res = Err("Deserialization")

\* C9: on a Store whose file holds a record that is present but does not
\* decode, persist of every changeset, the empty one included, fails in both
\* contracts: with the deserialization error unless an engine call of the read
\* failed first; it begins no write transaction and leaves the file, and so the
\* malformed record, as it is.  (Stated where open returns the Store: the file
\* being left as it is, the same holds on that Store ever after.)
C9_PersistRefusesUndecodable ==
    (JustOpened /\ Undecodable(file)) =>
        \A C \in ChangeSets, fault \in PersistFaults :
            LET s == WalletPersister_persist(file, C, fault)
                a == AsyncWalletPersister_persist(file, C, fault)
            IN  /\ ~s.res.ok /\ ~a.res.ok
                /\ fault \notin BeforeDecode =>
                       s.res = Err("Deserialization") /\ a.res = Err("Deserialization")
                /\ s.file = file /\ a.file = file
                /\ \A i \in DOMAIN s.steps : s.steps[i] /= "begin_write"
                /\ \A i \in DOMAIN a.steps : a.steps[i] /= "begin_write"

\* C9 witness: a persist has just returned the deserialization error on a Store
\* whose file holds a record that does not decode.
C9_Witness ==
    /\ stores /= <<>> /\ Undecodable(file)
    /\ last.op = "persist" /\ last.res = Err("Deserialization")

\* C10: the two contracts are observably equivalent: from every file state a
\* Store can be opened on, each call gives the same returned value, the same file
\* afterwards and the same engine calls through WalletPersister and through
\* AsyncWalletPersister (its future polled), for every changeset and every
\* engine failure; so every sequence of calls, step by step, does.
C10_SyncAsyncEquivalent ==
    JustOpened =>
        /\ \A fault \in ReadFaults :
               WalletPersister_initialize(file, fault)
                   = AsyncWalletPersister_initialize(file, fault)
        /\ \A C \in ChangeSets, fault \in PersistFaults :
               WalletPersister_persist(file, C, fault)
                   = AsyncWalletPersister_persist(file, C, fault)

\* C10 witness: a Store is opened on a file that holds a record, where some
\* persist changes the record and both contracts change it alike.
C10_Witness ==
    /\ JustOpened /\ HasRecord(file)
    /\ \E C \in NonEmpty :
           /\ WalletPersister_persist(file, C, "none").file /= file
           /\ AsyncWalletPersister_persist(file, C, "none").file
                  = WalletPersister_persist(file, C, "none").file

(***************************************************************************)
(* C11..C20                                                                *)
(***************************************************************************)
\* the engine calls an operation made
Calls(o) == {o.steps[i] : i \in DOMAIN o.steps}

\* the engine calls that open a transaction
TransactionCalls == {"begin_read", "begin_write"}

\* C11 as first stated: with the empty changeset neither store_changeset nor
\* persist opens a read or a write transaction, so neither returns a
\* transaction, table or commit error, whatever the engine does.
C11_EmptyOpensNoTransaction ==
    stores /= <<>> =>
        \A fault \in PersistFaults :
            /\ Calls(store_changeset(file, Empty, fault)) \cap TransactionCalls = {}
            /\ Calls(WalletPersister_persist(file, Empty, fault)) \cap TransactionCalls = {}
            /\ WalletPersister_persist(file, Empty, fault).res.kind
                   \notin {"Transaction", "Table", "Commit"}

\* C11: store_changeset of the empty changeset makes no engine call at all and
\* returns Ok whatever the engine does.  persist of the empty changeset, in
\* both contracts, always begins with a read transaction, whose errors it
\* returns; it opens a write transaction exactly when that read found a
\* record (which it then writes back), and only then can it return an error
\* of the write; with no record it makes the calls of the read only, leaves
\* the file as it is and returns Ok.
C11_EmptyShortCircuits ==
    stores /= <<>> =>
        /\ \A fault \in WriteFaults :
               store_changeset(file, Empty, fault) = Outcome(file, Ok(Unit), <<>>)
        /\ \A fault \in PersistFaults :
               LET read == get_changeset(file, fault)
                   s == WalletPersister_persist(file, Empty, fault)
                   a == AsyncWalletPersister_persist(file, Empty, fault)
               IN  /\ Head(s.steps) = "begin_read" /\ Head(a.steps) = "begin_read"
                   /\ ~read.res.ok => s = read /\ a = read
                   /\ (read.res.ok /\ ~read.res.val.some) =>
                          /\ s = Outcome(file, Ok(Unit), read.steps)
                          /\ a = Outcome(file, Ok(Unit), read.steps)
                   /\ "begin_write" \in Calls(s) <=> (read.res.ok /\ read.res.val.some)
                   /\ "begin_write" \in Calls(a) <=> (read.res.ok /\ read.res.val.some)
                   /\ s.res.kind \in {"Serialization", "Commit"} => "begin_write" \in Calls(s)

\* C11 witness: a persist of the empty changeset has just returned Ok on a file
\* that holds a record, which made it open a write transaction.
C11_Witness ==
    /\ last.op \in PersistOps /\ last.res.ok
    /\ log /= <<>> /\ log[Len(log)] = Empty
    /\ HasRecord(file)
    /\ "begin_write" \in Calls(WalletPersister_persist(file, Empty, "none"))

OpenOps == {"open", "open_with_config", "open_or_create"}
CreateOps == {"create", "create_with_config"}

\* C12: while a Store on the file is live, every further open, open_with_config
\* and open_or_create returns the database error at once and leaves the file
\* as it is; so in every reachable state at most one Store is live on the
\* file, and after a refused open the first Store is still there and reads
\* what was persisted.
C12_SecondOpenFails ==
    /\ Len(stores) <= 1
    /\ Locked =>
           /\ \A fault \in OpenFaults, config \in Configs :
                  /\ open(file, Locked, fault)
                         = Outcome(file, Err("Database"), <<"Database::open">>)
                  /\ open_with_config(file, Locked, config, fault)
                         = Outcome(file, Err("Database"), <<"Database::open">>)
           /\ \A fault \in OpenFaults \cup CreateFaults :
                  open_or_create(file, Locked, fault)
                      = Outcome(file, Err("Database"), <<"Database::open">>)
           /\ (last.op \in OpenOps /\ ~last.res.ok /\ file.has_table) =>
                  WalletPersister_initialize(file, "none").res = Ok(MergeAll(log))

\* C12 witness: open has just been refused while a Store is live on a file that
\* holds a record; with no Store live the same open would succeed.
C12_Witness ==
    /\ Locked /\ last.op = "open" /\ last.res = Err("Database")
    /\ HasRecord(file)
    /\ open(file, FALSE, "none").res.ok

\* C13: once the live Store has been dropped the file is released: open,
\* open_with_config and open_or_create succeed when the engine does, leave
\* the file as it is, and the new Store reads the record last committed, the
\* merge of everything persisted.
C13_DropReleasesFile ==
    /\ last.op = "drop" =>
           /\ stores = <<>>
           /\ open(file, Locked, "none") = Outcome(file, Ok(Unit), <<"Database::open">>)
           /\ \A config \in Configs :
                  open_with_config(file, Locked, config, "none")
                      = Outcome(file, Ok(Unit), <<"Database::open">>)
           /\ open_or_create(file, Locked, "none")
                  = Outcome(file, Ok(Unit), <<"Database::open">>)
    /\ (last.op \in OpenOps /\ last.res.ok /\ file.has_table) =>
           /\ stores /= <<>>
           /\ WalletPersister_initialize(file, "none").res = Ok(MergeAll(log))

\* C13 witness: open_or_create has just opened the existing file, which holds
\* the record an earlier, dropped Store persisted.
C13_Witness ==
    /\ last.op = "open_or_create" /\ last.res.ok
    /\ stores /= <<>> /\ stores[1].via = "open"
    /\ log /= <<>> /\ Stored(file) = Ok(Some(MergeAll(log)))

\* C14: where no file exists at the path, open and open_with_config return the
\* database error and create no file.
C14_OpenMissingFails ==
    ~file.exists =>
        /\ \A fault \in OpenFaults, config \in Configs :
               /\ open(file, Locked, fault)
                      = Outcome(NoFile, Err("Database"), <<"Database::open">>)
               /\ open_with_config(file, Locked, config, fault)
                      = Outcome(NoFile, Err("Database"), <<"Database::open">>)
        /\ last.op \in {"open", "open_with_config"} =>
               last.res = Err("Database") /\ stores = <<>>

\* C14 witness: open has just returned the database error and there is no file
\* at the path.
C14_Witness ==
    /\ ~file.exists /\ stores = <<>>
    /\ last.op = "open" /\ last.res = Err("Database")

\* C15: where a database file with its table exists at the path, create and
\* create_with_config return the database error and leave the file as it is.
C15_CreateOnExistingFails ==
    (file.exists /\ file.has_table) =>
        \A fault \in CreateFaults, config \in Configs :
            /\ create(file, Locked, fault)
                   = Outcome(file, Err("Database"), <<"Database::create">>)
            /\ create_with_config(file, Locked, config, fault)
                   = Outcome(file, Err("Database"), <<"Database::create">>)

\* C16: in every reachable state the table holds at most one entry, under the
\* reserved key; table_stats counts it.
C16_OnlyTheReservedKey ==
    /\ DOMAIN file.rows \subseteq {CHANGESET_KEY}
    /\ CHANGESET_KEY = "wallet_changeset"
    /\ (stores /= <<>> /\ file.has_table) =>
           table_stats(file, "none").res
               = Ok([entries |-> IF HasRecord(file) THEN 1 ELSE 0])

\* C16 witness: two non-empty changesets were persisted one after the other and
\* the table holds the one reserved entry.
C16_Witness ==
    /\ Len(log) = 2 /\ ~is_empty(log[1]) /\ ~is_empty(log[2])
    /\ DOMAIN file.rows = {CHANGESET_KEY}
    /\ last.op = "table_stats" /\ last.res = Ok([entries |-> 1])

AsyncOps == {"async_initialize", "async_persist"}
PollOps == {"poll_initialize", "poll_persist"}

InCriticalSection(t) ==
    tasks.pc[t] \in {"reveal", "lock_store", "persist", "await", "return"}

\* C18: with the tasks sharing the wallet and the Store behind their mutexes,
\* each locking the wallet and then the Store before it reveals and persists:
\* under every interleaving the test is never stuck before its end (no
\* deadlock), one task at a time is between its locks, the persist a task
\* awaits returns Ok when the engine's calls succeed (no error), and once all
\* tasks have completed the record holds every reveal: the last revealed index
\* is that of the last task, nothing is left staged, and the load at the end
\* of the test reads just that.
C18_TasksAllComplete ==
    /\ tasks.main \notin {"done", "assert_failed"} => ENABLED NextTasks
    /\ \A t, u \in Tasks : (InCriticalSection(t) /\ InCriticalSection(u)) => t = u
    /\ \A t \in Tasks :
           /\ InCriticalSection(t) => tasks.wallet_guard = HeldByTask(t)
           /\ tasks.pc[t] \in {"persist", "await", "return"} =>
                  tasks.store_guard = HeldByTask(t)
           /\ tasks.pc[t] = "await" =>
                  /\ fut.pending /\ fut.changeset = tasks.stage
                  /\ AsyncWalletPersister_persist(file, fut.changeset, "none").res = Ok(Unit)
    /\ (\A t \in Tasks : tasks.pc[t] = "done") =>
           /\ Len(log) = 1 + Cardinality(Tasks)
           /\ Stored(file) = Ok(Some(MergeAll(log)))
           /\ MergeAll(log) = merge(Genesis, Revealed(MaxIndex))
           /\ tasks.stage = Empty /\ tasks.next_index = MaxIndex + 1
    /\ tasks.main = "done" => last.res = Ok(merge(Genesis, Revealed(MaxIndex)))

\* C18 witness: every task has completed, the test has come to its end, and
\* the load read the record with the last task's index as the last revealed.
C18_Witness ==
    /\ \A t \in Tasks : tasks.pc[t] = "done"
    /\ tasks.main = "done"
    /\ ~tasks.wallet_guard.held /\ ~tasks.store_guard.held
    /\ last.op = "poll_initialize"
    /\ last.res.ok /\ last.res.val.indexer = [d \in Descriptors |-> MaxIndex]

\* the error kind stated for the failure of each engine or codec call
ClaimedKind(step) ==
    CASE step \in {"begin_read", "begin_write"} -> "Transaction"
      [] step \in {"read.open_table", "write.open_table"} -> "Table"
      [] step = "commit" -> "Commit"
      [] step = "to_vec" -> "Serialization"
      [] step = "from_slice" -> "Deserialization"
      [] step \in {"Database::create", "Database::open", "get", "insert", "stats"}
             -> "Database"

\* an operation that failed returned the kind stated for the call it ended on
FailsWithClaimedKind(o) ==
    ~o.res.ok => o.res = Err(ClaimedKind(o.steps[Len(o.steps)]))

\* C19: every failing step gives its one fixed error kind: beginning a read or
\* write transaction the transaction kind, opening the table the table kind,
\* commit the commit kind, encoding the serialization kind, decoding the
\* deserialization kind, create, open, lookup and insert the database kind;
\* for every operation of the adapter, every changeset and every failing call.
C19_FixedErrorKinds ==
    /\ \A fault \in CreateFaults :
           /\ FailsWithClaimedKind(create(file, Locked, fault))
           /\ FailsWithClaimedKind(open_or_create(file, Locked, fault))
           /\ \A config \in Configs :
                  FailsWithClaimedKind(create_with_config(file, Locked, config, fault))
    /\ \A fault \in OpenFaults :
           /\ FailsWithClaimedKind(open(file, Locked, fault))
           /\ FailsWithClaimedKind(open_or_create(file, Locked, fault))
           /\ \A config \in Configs :
                  FailsWithClaimedKind(open_with_config(file, Locked, config, fault))
    /\ JustOpened =>
           /\ \A fault \in ReadFaults :
                  /\ FailsWithClaimedKind(get_changeset(file, fault))
                  /\ FailsWithClaimedKind(WalletPersister_initialize(file, fault))
                  /\ FailsWithClaimedKind(AsyncWalletPersister_initialize(file, fault))
           /\ \A fault \in StatsFaults : FailsWithClaimedKind(table_stats(file, fault))
           /\ \A C \in ChangeSets, fault \in PersistFaults :
                  /\ FailsWithClaimedKind(store_changeset(file, C, fault))
                  /\ FailsWithClaimedKind(WalletPersister_persist(file, C, fault))
                  /\ FailsWithClaimedKind(AsyncWalletPersister_persist(file, C, fault))
    /\ ~last.res.ok =>
           last.res.kind \in {"Pending", "Database", "Transaction", "Table", "Commit",
                              "Serialization", "Deserialization"}
    /\ (last.op \in LifecycleOps /\ ~last.res.ok) =>
           last.res.kind \in {"Database", "Transaction", "Table", "Commit"}
    /\ (last.op \in InitializeOps \cup {"table_stats"} /\ ~last.res.ok) =>
           last.res.kind \in {"Database", "Transaction", "Table", "Deserialization"}

\* C19 witness: the poll of a persist future has just returned the
\* deserialization error on a Store whose record does not decode.
C19_Witness ==
    /\ stores /= <<>> /\ Undecodable(file)
    /\ last.op = "poll_persist" /\ last.res = Err("Deserialization")

\* the calls of a whole read and of a whole write, in the order of the code
FullRead == <<"begin_read", "read.open_table", "get", "from_slice">>
FullWrite == <<"begin_write", "write.open_table", "to_vec", "insert", "commit">>
FullCreate == <<"Database::create", "begin_write", "write.open_table", "commit">>

IsPrefix(s, t) == Len(s) <= Len(t) /\ s = SubSeq(t, 1, Len(s))

\* an operation stopped at the call that failed: that call is its last, and
\* it returned an error
StopsAtFailure(o, fault) ==
    /\ \A i, j \in DOMAIN o.steps : o.steps[i] = o.steps[j] => i = j
    /\ (fault /= "none" /\ fault \in Calls(o)) =>
           (o.steps[Len(o.steps)] = fault /\ ~o.res.ok)

\* C20: an operation returns the error of its first failing step at once: the
\* calls it made are a beginning of its sequence of calls, none made twice,
\* the failing call the last of them and the result an error, never a default;
\* a read or a write that failed left the file as it was, and persist begins
\* no write transaction after its read failed.
C20_FailsFast ==
    /\ \A fault \in CreateFaults \cup OpenFaults :
           /\ StopsAtFailure(create(file, Locked, fault), fault)
           /\ IsPrefix(create(file, Locked, fault).steps, FullCreate)
           /\ StopsAtFailure(open(file, Locked, fault), fault)
           /\ StopsAtFailure(open_or_create(file, Locked, fault), fault)
    /\ JustOpened =>
           /\ \A fault \in ReadFaults :
                  LET g == get_changeset(file, fault)
                      s == WalletPersister_initialize(file, fault)
                      a == AsyncWalletPersister_initialize(file, fault)
                  IN  /\ StopsAtFailure(g, fault) /\ IsPrefix(g.steps, FullRead)
                      /\ StopsAtFailure(s, fault) /\ IsPrefix(s.steps, FullRead)
                      /\ StopsAtFailure(a, fault) /\ IsPrefix(a.steps, FullRead)
                      /\ s.res.ok = g.res.ok /\ a.res.ok = g.res.ok
                      /\ g.file = file /\ s.file = file /\ a.file = file
           /\ \A C \in ChangeSets, fault \in PersistFaults :
                  LET g == get_changeset(file, fault)
                      w == store_changeset(file, C, fault)
                      s == WalletPersister_persist(file, C, fault)
                      a == AsyncWalletPersister_persist(file, C, fault)
                  IN  /\ StopsAtFailure(w, fault) /\ IsPrefix(w.steps, FullWrite)
                      /\ StopsAtFailure(s, fault) /\ StopsAtFailure(a, fault)
                      /\ IsPrefix(s.steps, g.steps \o FullWrite)
                      /\ IsPrefix(a.steps, g.steps \o FullWrite)
                      /\ ~g.res.ok => (s = g /\ a = g)
                      /\ ~w.res.ok => w.file = file
                      /\ ~s.res.ok => s.file = file
                      /\ ~a.res.ok => a.file = file

\* C20 witness: a persist has just returned the error of a table that could
\* not be opened, on a Store whose file holds a record.
C20_Witness ==
    /\ stores /= <<>> /\ HasRecord(file) /\ file.has_table
    /\ last.op = "persist" /\ last.res = Err("Table")

(***************************************************************************)
(* C21..C30                                                                *)
(***************************************************************************)
\* C21: open_or_create looks at the path first: where a file exists its result,
\* its effect on the file and its engine calls are those of open, where none
\* exists those of create; a Store it returned by creating owns a new file
\* with the empty table, a Store it returned by opening owns the file that
\* was there, and the file exists afterwards.
C21_OpenOrCreateRoutes ==
    /\ \A fault \in CreateFaults \cup OpenFaults :
           open_or_create(file, Locked, fault)
               = IF file.exists THEN open(file, Locked, fault)
                 ELSE create(file, Locked, fault)
    /\ (last.op = "open_or_create" /\ last.res.ok) =>
           /\ file.exists /\ stores /= <<>>
           /\ stores[1].via = "create" => (file = open_table(NewFile) /\ log = <<>>)
           /\ (stores[1].via = "open" /\ file.has_table) =>
                  WalletPersister_initialize(file, "none").res = Ok(MergeAll(log))

\* C21 witness: open_or_create has just opened the file that an earlier
\* open_or_create created, nothing having been persisted in between.
C21_Witness ==
    /\ last.op = "open_or_create" /\ last.res.ok
    /\ stores /= <<>> /\ stores[1].via = "open"
    /\ file = open_table(NewFile) /\ log = <<>>

\* C22: when another actor creates the file between open_or_create's
\* existence check, which found none, and its create call, the create call
\* fails with a database-kind error and leaves the other actor's file as it
\* is: it never returns a Store on that file.
C22_RaceSurfacesAlreadyExists ==
    last.op = "other_created" =>
        \A fault \in CreateFaults :
            /\ create(file, Locked, fault).res = Err("Database")
            /\ create(file, Locked, fault).file = file

\* C23: the file of a Store that create or create_with_config has just
\* returned holds the table and no record; and where a Store is live on a
\* file with the table, no initialize, persist or open takes the table away.
C23_CreatedTableEmptyAndKept ==
    /\ (last.op \in CreateOps /\ last.res.ok) =>
           (stores /= <<>> /\ file.has_table /\ file.rows = EmptyRows)
    /\ (stores /= <<>> /\ file.has_table) =>
           /\ \A fault \in ReadFaults :
                  WalletPersister_initialize(file, fault).file.has_table
           /\ \A changeset \in ChangeSets, fault \in PersistFaults :
                  WalletPersister_persist(file, changeset, fault).file.has_table
           /\ \A fault \in OpenFaults : open(file, Locked, fault).file.has_table

\* C24: every step that is an open or an open_with_config, successful or
\* failed, leaves the file as it was: same table, same record, and what was
\* persisted stays as it was.
C24_OpenLeavesFileAsItIs ==
    [][last'.op \in {"open", "open_with_config"} => (file' = file /\ log' = log)]_vars

\* C24 witness: open_with_config has returned a Store on a file whose record
\* is still the merge of the two changesets persisted before.
C24_Witness ==
    /\ last.op = "open_with_config" /\ last.res.ok
    /\ Len(log) = 2 /\ HasRecord(file)
    /\ Stored(file) = Ok(Some(MergeAll(log)))

\* how often the engine call named call occurs among the calls of outcome o
Times(o, call) == Cardinality({i \in DOMAIN o.steps : o.steps[i] = call})

\* C25: on a readable store, a persist (blocking or asynchronous) whose merged
\* result is not empty begins and commits exactly one write transaction and
\* leaves as the only record the serialization of the whole merged changeset,
\* also when the new changeset is empty or adds nothing; a persist whose
\* merged result is empty begins no write transaction and leaves the file as
\* it is.
C25_NonEmptyMergeRewritesWhole ==
    (JustOpened /\ Stored(file).ok) =>
        \A changeset \in ChangeSets :
            LET merged == merge(unwrap_or_default(Stored(file).val), changeset)
            IN  \A o \in {WalletPersister_persist(file, changeset, "none"),
                          AsyncWalletPersister_persist(file, changeset, "none")} :
                    /\ o.res = Ok(Unit)
                    /\ IF is_empty(merged)
                       THEN Times(o, "begin_write") = 0 /\ o.file = file
                       ELSE /\ Times(o, "begin_write") = 1
                            /\ Times(o, "insert") = 1
                            /\ Times(o, "commit") = 1
                            /\ DOMAIN o.file.rows = {CHANGESET_KEY}
                            /\ o.file.rows[CHANGESET_KEY] = to_vec(merged)

\* C25 witness: a second persist whose changeset is neither empty nor the one
\* stored, and adds nothing to it, has returned; the record is the whole
\* merged changeset and persisting that changeset again writes again.
C25_Witness ==
    /\ last.op = "persist" /\ last.res.ok
    /\ Len(log) = 2 /\ ~is_empty(log[2]) /\ log[2] /= log[1]
    /\ MergeAll(log) = log[1]
    /\ Stored(file) = Ok(Some(log[1]))
    /\ Times(WalletPersister_persist(file, log[2], "none"), "commit") = 1

\* C26: on a store whose table holds no record, a persist of C (blocking or
\* asynchronous) leaves the file that storing merge(Empty, C) leaves, makes
\* the same engine calls and returns the same value: C itself is the record
\* when C is not empty, and no record is written when it is.
C26_AbsentIsEmpty ==
    (JustOpened /\ file.has_table /\ ~HasRecord(file)) =>
        \A changeset \in ChangeSets :
            LET by_rule == store_changeset(file, merge(Empty, changeset), "none")
            IN  \A o \in {WalletPersister_persist(file, changeset, "none"),
                          AsyncWalletPersister_persist(file, changeset, "none")} :
                    /\ o.file = by_rule.file
                    /\ o.res = by_rule.res
                    /\ o.steps = get_changeset(file, "none").steps \o by_rule.steps
                    /\ Stored(o.file) = IF is_empty(changeset) THEN Ok(None)
                                        ELSE Ok(Some(changeset))

\* C26 witness: the first persist on a store without record has returned and
\* the record is its changeset, which is not empty.
C26_Witness ==
    /\ last.op = "poll_persist" /\ last.res.ok
    /\ Len(log) = 1 /\ ~is_empty(log[1])
    /\ Stored(file) = Ok(Some(log[1]))
    /\ merge(Empty, log[1]) = log[1]

\* C27: initialize, blocking or asynchronous, makes only the calls of one
\* read transaction and leaves the file as it is, so that a second initialize
\* returns what the first returned; every step that is an initialize leaves
\* the file and what was persisted unchanged, and of two initialize calls in
\* a row that both succeed the second returns the changeset of the first.
C27_InitializeOnlyReads ==
    /\ [](stores /= <<>> =>
            \A fault \in ReadFaults :
                \A o \in {WalletPersister_initialize(file, fault),
                          AsyncWalletPersister_initialize(file, fault)} :
                    /\ o.file = file
                    /\ Calls(o) \subseteq Calls([steps |-> FullRead])
                    /\ Times(o, "begin_read") <= 1
                    /\ WalletPersister_initialize(o.file, "none").res
                           = WalletPersister_initialize(file, "none").res)
    /\ [][last'.op \in InitializeOps => (file' = file /\ log' = log)]_vars
    /\ [][(last.op \in InitializeOps /\ last.res.ok
           /\ last'.op \in InitializeOps /\ last'.res.ok)
          => last'.res = last.res]_vars

\* C27 witness: an asynchronous initialize has returned the merge of the two
\* changesets persisted, and the record still holds that merge.
C27_Witness ==
    /\ last.op = "poll_initialize" /\ last.res = Ok(MergeAll(log))
    /\ Len(log) = 2 /\ ~is_empty(log[1]) /\ log[2] /= log[1]
    /\ Stored(file) = Ok(Some(MergeAll(log)))

\* the file after persist(first) and then persist(second), both successful
PersistedInOrder(f, first, second) ==
    WalletPersister_persist(WalletPersister_persist(f, first, "none").file,
                            second, "none").file

\* two changesets give different block hashes for one height of the chain
Conflict(a, b) ==
    \E h \in DOMAIN a.local_chain \cap DOMAIN b.local_chain :
        a.local_chain[h] /= b.local_chain[h]

C29_RetrySafe ==
    (JustOpened /\ Stored(file).ok) =>
        \A changeset \in ChangeSets :
            LET once == WalletPersister_persist(file, changeset, "none")
            IN  /\ once.res = Ok(Unit)
                /\ \A again \in {WalletPersister_persist(once.file, changeset, "none"),
                                 AsyncWalletPersister_persist(once.file, changeset,
                                                              "none")} :
                       again.res = Ok(Unit) /\ again.file = once.file
                /\ \A fault \in PersistFaults :
                       LET attempt == WalletPersister_persist(file, changeset, fault)
                       IN  ~attempt.res.ok =>
                               WalletPersister_persist(attempt.file, changeset,
                                                       "none").file = once.file

\* C29 witness: the same changeset, not empty, has been persisted twice on a
\* new store and the record is that changeset.
C29_Witness ==
    /\ last.op \in PersistOps /\ last.res.ok
    /\ Len(log) = 2 /\ log[1] = log[2] /\ ~is_empty(log[1])
    /\ DOMAIN log[1].indexer /= {} /\ DOMAIN log[1].local_chain /= {}
    /\ Stored(file) = Ok(Some(log[1]))

\* outcome o is a return, Ok or a RedbError, after at most as many engine
\* calls as the sequence calls holds, none of them made twice
ReturnsWithin(o, calls) ==
    /\ o.res.ok \/ o.res.kind \in RedbError
    /\ Len(o.steps) <= Len(calls)
    /\ \A i, j \in DOMAIN o.steps : o.steps[i] = o.steps[j] => i = j

\* a write transaction that outcome o began was committed, or o is the error
\* of one of the transaction's calls
RunsToCommitOrFailure(o) ==
    "begin_write" \in Calls(o) =>
        IF o.res.ok THEN o.steps[Len(o.steps)] = "commit"
        ELSE o.steps[Len(o.steps)] \in Calls([steps |-> FullWrite])

\* C30: whatever engine call fails, every create, open, initialize and
\* persist, blocking or asynchronous, returns Ok or a RedbError after a
\* bounded run of engine calls with none repeated, a write transaction it
\* began ending in its commit or in the error of one of its calls; every
\* operation that has returned has returned one of these; and a pending
\* future is one of initialize or of persist, which can be polled as soon as
\* it is created, its poll waiting on nothing.
C30_OperationsReturn ==
    /\ \A fault \in CreateFaults \cup OpenFaults :
           /\ \A o \in {create(file, Locked, fault), open(file, Locked, fault),
                        open_or_create(file, Locked, fault)} :
                  ReturnsWithin(o, FullCreate) /\ RunsToCommitOrFailure(o)
           /\ \A config \in Configs :
                  \A o \in {create_with_config(file, Locked, config, fault),
                            open_with_config(file, Locked, config, fault)} :
                      ReturnsWithin(o, FullCreate) /\ RunsToCommitOrFailure(o)
    /\ JustOpened =>
           \A fault \in PersistFaults :
               /\ \A o \in {WalletPersister_initialize(file, fault),
                            AsyncWalletPersister_initialize(file, fault)} :
                      ReturnsWithin(o, FullRead)
               /\ \A changeset \in ChangeSets :
                      \A o \in {WalletPersister_persist(file, changeset, fault),
                                AsyncWalletPersister_persist(file, changeset, fault)} :
                          /\ ReturnsWithin(o, FullRead \o FullWrite)
                          /\ RunsToCommitOrFailure(o)
    /\ last.op \in LifecycleOps \cup InitializeOps \cup PersistOps =>
           (last.res.ok \/ last.res.kind \in RedbError)
    /\ fut.pending => fut.op \in {"initialize", "persist"}
    /\ (fut.pending /\ last.op \in {"async_initialize", "async_persist"}) =>
           (ENABLED PollInitialize \/ ENABLED PollPersist)

\* C30 witness: an asynchronous persist that had begun its write transaction
\* has returned the error of the commit, with the Store still live and no
\* future left pending.
C30_Witness ==
    /\ last.op = "poll_persist" /\ last.res = Err("Commit")
    /\ stores /= <<>> /\ ~fut.pending

(***************************************************************************)
(* C31..C36                                                                *)
(***************************************************************************)
\* C31: with persist taken as its read transaction followed by its write
\* transaction and other callers acting in between: at most one Store is
\* live on the file, what the persist read is still the record when it
\* writes, and in every state the record is the merge of all the changesets
\* persisted successfully, none of them lost.
C31_NoLostUpdate ==
    /\ Len(stores) <= 1
    /\ MidPersist => (stores /= <<>> /\ fut.pending /\ last.res = Stored(file))
    /\ file.has_table =>
           Stored(file) = IF is_empty(MergeAll(log)) THEN Ok(None)
                          ELSE Ok(Some(MergeAll(log)))

\* C31 witness: a persist whose read and write were separate steps has
\* returned Ok for the second changeset, and the record is the merge of both,
\* which is not the second alone.
C31_Witness ==
    /\ last.op = "persist_return" /\ last.res.ok
    /\ Len(log) = 2 /\ ~is_empty(log[1]) /\ ~is_empty(log[2])
    /\ MergeAll(log) /= log[2]
    /\ Stored(file) = Ok(Some(MergeAll(log)))

\* C32: every database file that create has left on disk holds the table,
\* also when create failed after it made the file; so no Store that open or
\* open_or_create returns fails its initialize or its persist with the table
\* error while the engine's calls succeed.
C32_NoTableLessFile ==
    /\ file.exists => file.has_table
    /\ (stores /= <<>> /\ last.op \in OpenOps /\ last.res.ok) =>
           /\ WalletPersister_initialize(file, "none").res.ok
           /\ \A changeset \in ChangeSets :
                  WalletPersister_persist(file, changeset, "none").res.ok

\* C33: a record that is present decodes, and to a changeset that is not
\* empty; so on a file with the table, initialize of either contract returns
\* the empty changeset exactly when there is no record.
C33_RecordIsNeverEmpty ==
    /\ HasRecord(file) =>
           /\ from_slice(file.rows[CHANGESET_KEY]).ok
           /\ ~is_empty(from_slice(file.rows[CHANGESET_KEY]).val)
    /\ file.has_table =>
           /\ WalletPersister_initialize(file, "none").res.ok
           /\ (WalletPersister_initialize(file, "none").res = Ok(Empty))
                  <=> ~HasRecord(file)
           /\ (AsyncWalletPersister_initialize(file, "none").res = Ok(Empty))
                  <=> ~HasRecord(file)

\* C33 witness: the empty changeset was persisted on a new store with
\* success, no record was written, and initialize has returned the empty
\* changeset.
C33_Witness ==
    /\ last.op = "initialize" /\ last.res = Ok(Empty)
    /\ log = <<Empty>>
    /\ file.has_table /\ ~HasRecord(file)

\* the record of file f as a changeset, the empty one where there is none
RecordOf(f) ==
    IF HasRecord(f) /\ from_slice(f.rows[CHANGESET_KEY]).ok
    THEN from_slice(f.rows[CHANGESET_KEY]).val
    ELSE Empty

\* changeset new lacks nothing that changeset old holds: every descriptor of
\* old with an index at least as high, every height of old's chain
Covers(new, old) ==
    /\ DOMAIN old.indexer \subseteq DOMAIN new.indexer
    /\ \A d \in DOMAIN old.indexer : new.indexer[d] >= old.indexer[d]
    /\ DOMAIN old.local_chain \subseteq DOMAIN new.local_chain

C35_FutureIsLazy ==
    /\ [][last'.op \in AsyncOps =>
              /\ file' = file /\ stores' = stores /\ log' = log
              /\ fut'.pending /\ last'.res = Err("Pending")]_vars
    /\ [][last'.op = "drop_future" =>
              /\ file' = file /\ stores' = stores /\ log' = log
              /\ fut.pending /\ ~fut'.pending]_vars

\* C35 witness: the future of a persist that would change the record has been
\* made and not polled, and the record is still the changeset persisted
\* before.
C35_Witness ==
    /\ last.op = "async_persist" /\ fut.pending /\ fut.op = "persist"
    /\ Len(log) = 1 /\ Stored(file) = Ok(Some(log[1]))
    /\ merge(log[1], fut.changeset) /= log[1]

\* C36: no operation has returned, and none returns whatever engine call
\* fails, the I/O kind of RedbError; a file that is missing or is no database
\* makes open and open_with_config fail with the database kind.
C36_NeverIo ==
    /\ last.res.kind /= "Io"
    /\ \A fault \in CreateFaults \cup OpenFaults :
           /\ create(file, Locked, fault).res.kind /= "Io"
           /\ open(file, Locked, fault).res.kind /= "Io"
           /\ open_or_create(file, Locked, fault).res.kind /= "Io"
           /\ \A config \in Configs :
                  /\ create_with_config(file, Locked, config, fault).res.kind /= "Io"
                  /\ open_with_config(file, Locked, config, fault).res.kind /= "Io"
    /\ (~file.exists \/ file.damaged) =>
           /\ open(file, Locked, "none").res = Err("Database")
           /\ \A config \in Configs :
                  open_with_config(file, Locked, config, "none").res = Err("Database")
    /\ JustOpened =>
           /\ \A fault \in ReadFaults :
                  WalletPersister_initialize(file, fault).res.kind /= "Io"
           /\ \A fault \in StatsFaults : table_stats(file, fault).res.kind /= "Io"
           /\ \A changeset \in ChangeSets, fault \in PersistFaults :
                  WalletPersister_persist(file, changeset, fault).res.kind /= "Io"

\* C36 witness: open of a file that was cut short from outside has failed,
\* with the database kind.
C36_Witness ==
    /\ last.op = "open" /\ last.res = Err("Database")
    /\ file = DamagedFile /\ stores = <<>>

=============================================================================
